---------------------------- MODULE Spec2Model ----------------------------
(***************************************************************************)
(* A state-machine model of VT Scope (src/bin/vtscope.py): the replay      *)
(* engine that loads a captured terminal session, cuts it into chunks and  *)
(* relays them to TCP clients.                                             *)
(*                                                                         *)
(* Bytes are their integer codes; byte strings are sequences of codes.     *)
(* Offsets into a byte string are 0-based, as in the Python source; At and *)
(* Slice translate to the 1-based sequences of TLA+.                       *)
(***************************************************************************)
EXTENDS Integers, Sequences, FiniteSets, TLC

VARIABLES
  data,               \* self.data: the canned data (payload)
  stops,              \* self.stops: the header-defined stop offsets
  start_position,     \* self.start_position
  end_position,       \* self.end_position
  clients,            \* self.clients: the list of connected terminals
  delay_ms,           \* self.delay_ms
  running,            \* self.running
  last_command_line,  \* run(): the command line dispatched last, kept when it is a
                      \* seek line (any other line is recorded as the empty one)
  pc,                 \* where the control thread is: "prompt", "accept", "step", "seek",
                      \* or "crashed" once an exception has left run()
  count,              \* the local `count` of cmd_accept (target) or cmd_step (iterations left)
  pos,                \* the local `pos` of cmd_seek
  paced,              \* broadcast_chunk: characters of the chunk already handed to send
  next_up,            \* what show_next_chunk printed last: a category, "text" or "end"
  received,           \* per connection: the bytes written to it since the last reset
  joined,             \* per connection: the start position it has been sent from, that
                      \* is 0 at a reset and the current one when it connects
  held                \* cmd_accept, while it waits: the client list it started from

vars == <<data, stops, start_position, end_position, clients, delay_ms, running,
          last_command_line, pc, count, pos, paced, next_up, received, joined,
          held>>

---------------------------------------------------------------------------
(* Bounds of the model. *)

\* Connections that can be open at once.
MaxClients == 3
\* Largest argument given to step and bstep.
MaxCount == 2
\* Longest payload of the generated (header-less) captures.
MaxLen == 2

---------------------------------------------------------------------------
(* Byte constants and Python string primitives. *)

MAX_TEXT == 15
ESC == 27
BEL == 7
NL == 10

Min(a, b) == IF a < b THEN a ELSE b

Range(s) == {s[i] : i \in 1..Len(s)}

\* s[i], 0-based.
At(s, i) == s[i + 1]

\* s[a:b] for 0 <= a, 0 <= b: Python clips both ends to len(s).
Slice(s, a, b) == SubSeq(s, Min(a, Len(s)) + 1, Min(b, Len(s)))

\* s.find(chr(b), from): the first index >= from holding byte b, or -1.
RECURSIVE Find(_, _, _)
Find(s, b, from) ==
  IF from >= Len(s) THEN -1
  ELSE IF At(s, from) = b THEN from
  ELSE Find(s, b, from + 1)

\* Whether the literal lit stands at offset i of s.
HasLit(s, i, lit) ==
  /\ i >= 0
  /\ i + Len(lit) <= Len(s)
  /\ SubSeq(s, i + 1, i + Len(lit)) = lit

---------------------------------------------------------------------------
(* re_escapes: each pattern, matched at offset p (pattern.match(data, p)). *)
(* A matcher yields the match's end offset, or -1 when it does not match.  *)

\* '.' matches any byte but a newline.
Dot(b) == b # NL

\* [@-~]
Final(b) == b >= 64 /\ b <= 126

\* .*?[@-~] from q: lazily up to the first final byte.
RECURSIVE ScanFinal(_, _)
ScanFinal(s, q) ==
  IF q >= Len(s) THEN -1
  ELSE IF Final(At(s, q)) THEN q + 1
  ELSE IF Dot(At(s, q)) THEN ScanFinal(s, q + 1)
  ELSE -1

\* .*?(\x1b\\|\x07) from q: lazily up to the first ESC \ or BEL.
RECURSIVE ScanST(_, _)
ScanST(s, q) ==
  IF q >= Len(s) THEN -1
  ELSE IF At(s, q) = ESC /\ q + 1 < Len(s) /\ At(s, q + 1) = 92 THEN q + 2
  ELSE IF At(s, q) = BEL THEN q + 1
  ELSE IF Dot(At(s, q)) THEN ScanST(s, q + 1)
  ELSE -1

\* r'\[.*?[@-~]'
MatchCSI(s, p) == IF p < Len(s) /\ At(s, p) = 91 THEN ScanFinal(s, p + 1) ELSE -1

\* r'\].*?(\x1b\\|\x07)'
MatchOSC(s, p) == IF p < Len(s) /\ At(s, p) = 93 THEN ScanST(s, p + 1) ELSE -1

\* r'^.*?(\x1b\\|\x07)': the caret is unescaped, so it is the start-of-string
\* anchor, which holds at offset 0 only (the pattern is compiled without
\* re.MULTILINE); no byte is consumed for it.
MatchPM(s, p) == IF p = 0 THEN ScanST(s, p) ELSE -1

\* r'P.*?(\x1b\\|\x07)'
MatchDCS(s, p) == IF p < Len(s) /\ At(s, p) = 80 THEN ScanST(s, p + 1) ELSE -1

\* r'_.*?(\x1b\\|\x07)'
MatchAPC(s, p) == IF p < Len(s) /\ At(s, p) = 95 THEN ScanST(s, p + 1) ELSE -1

\* One introducer byte of the set intro, then [^\x1b].
MatchTwo(s, p, intro) ==
  IF p + 1 < Len(s) /\ At(s, p) \in intro /\ At(s, p + 1) # ESC THEN p + 2 ELSE -1

\* r'#[^\x1b]'
MatchDEC(s, p) == MatchTwo(s, p, {35})

\* r'%[^\x1b]'
MatchCHR(s, p) == MatchTwo(s, p, {37})

\* r'[()*+-./][^\x1b]': in the class, +-. is the range 43..46.
MatchGRA(s, p) == MatchTwo(s, p, {40, 41, 42} \cup (43..46) \cup {47})

\* r'[^\x1b]'
MatchESC(s, p) == IF p < Len(s) /\ At(s, p) # ESC THEN p + 1 ELSE -1

\* The names of re_escapes, in table order.
re_escapes == <<"CSI", "OSC", "PM", "DCS", "APC", "DEC", "CHR", "GRA", "ESC">>

PatternMatch(name, s, p) ==
  CASE name = "CSI" -> MatchCSI(s, p)
    [] name = "OSC" -> MatchOSC(s, p)
    [] name = "PM"  -> MatchPM(s, p)
    [] name = "DCS" -> MatchDCS(s, p)
    [] name = "APC" -> MatchAPC(s, p)
    [] name = "DEC" -> MatchDEC(s, p)
    [] name = "CHR" -> MatchCHR(s, p)
    [] name = "GRA" -> MatchGRA(s, p)
    [] name = "ESC" -> MatchESC(s, p)

\* A for loop over re_escapes that does not break: the last pattern that
\* matches at p wins.
RECURSIVE LastMatch(_, _, _)
LastMatch(s, p, i) ==
  IF i > Len(re_escapes) THEN [name |-> "???", end |-> -1]
  ELSE LET later == LastMatch(s, p, i + 1) IN
       IF later.end # -1 THEN later
       ELSE IF PatternMatch(re_escapes[i], s, p) # -1
            THEN [name |-> re_escapes[i], end |-> PatternMatch(re_escapes[i], s, p)]
            ELSE later

\* The for loop of find_next_chunk over re_escapes from entry i: the first
\* pattern that matches at p, as [name, end]; end = -1 when none does.
RECURSIVE FirstMatch(_, _, _)
FirstMatch(s, p, i) ==
  IF i > Len(re_escapes) THEN [name |-> "???", end |-> -1]
  ELSE IF PatternMatch(re_escapes[i], s, p) # -1
       THEN [name |-> re_escapes[i], end |-> PatternMatch(re_escapes[i], s, p)]
       ELSE FirstMatch(s, p, i + 1)

\* A find_next_chunk that looks for the next ESC from the start of the data.
FindFromZero(d, s, e) ==
  LET start == e IN
  IF start >= Len(d) THEN [start |-> start, end |-> e, kind |-> "end"]
  ELSE IF At(d, start) = ESC
  THEN LET m == FirstMatch(d, start + 1, 1) IN
       IF m.end # -1 THEN [start |-> start, end |-> m.end, kind |-> m.name]
       ELSE [start |-> start, end |-> start + MAX_TEXT, kind |-> "???"]
  ELSE LET f == Find(d, ESC, 0) IN
       [start |-> start, end |-> IF f = -1 THEN Len(d) ELSE f, kind |-> "text"]

\* find_next_chunk on the cursor (s, e) over payload d: the new cursor and
\* the kind of chunk found ("end" when it returns the empty snippet).
find_next_chunk(d, s, e) ==
  LET start == e IN
  IF start >= Len(d) THEN [start |-> start, end |-> e, kind |-> "end"]
  ELSE IF At(d, start) = ESC
  THEN LET m == FirstMatch(d, start + 1, 1) IN
       IF m.end # -1
       THEN [start |-> start, end |-> m.end, kind |-> m.name]
       ELSE [start |-> start, end |-> start + MAX_TEXT, kind |-> "???"]
  ELSE LET f == Find(d, ESC, start) IN
       [start |-> start, end |-> IF f = -1 THEN Len(d) ELSE f, kind |-> "text"]

---------------------------------------------------------------------------
(* The header of a capture: cmd_open and scan_header. *)

HEADER_START == <<64, 64, 32, 72, 69, 65, 68, 69, 82, 95, 83, 84, 65, 82, 84>>
HEADER_END == <<64, 64, 32, 72, 69, 65, 68, 69, 82, 95, 69, 78, 68>>
AtAt == <<64, 64>>
OffsetKey == <<79, 70, 70, 83, 69, 84, 58>>
LinesKey == <<76, 73, 78, 69, 83, 58>>
CursorKey == <<67, 85, 82, 83, 79, 82, 58>>

\* \s of a byte pattern: space, \t, \n, \v, \f, \r.
Ws(b) == b \in {32, 9, 10, 11, 12, 13}

\* \d
Digit(b) == b >= 48 /\ b <= 57

\* The end of the longest run of whitespace starting at q.
RECURSIVE WsEnd(_, _)
WsEnd(s, q) == IF q < Len(s) /\ Ws(At(s, q)) THEN WsEnd(s, q + 1) ELSE q

\* The end of the longest run of digits starting at q.
RECURSIVE DigEnd(_, _)
DigEnd(s, q) == IF q < Len(s) /\ Digit(At(s, q)) THEN DigEnd(s, q + 1) ELSE q

\* int() of the decimal digits s[a:b].
RECURSIVE DigitsValue(_, _, _)
DigitsValue(s, a, b) ==
  IF b <= a THEN 0 ELSE 10 * DigitsValue(s, a, b - 1) + (At(s, b - 1) - 48)

\* The stages of offset_re; each takes the offset reached so far (-1: the
\* match has failed) and yields the offset after it.  \s+ and \d+ are
\* greedy and what follows each cannot start with a byte of its class, so
\* only the longest run can match.
SkipLit(s, i, lit) == IF i >= 0 /\ HasLit(s, i, lit) THEN i + Len(lit) ELSE -1
SkipWs1(s, i) == IF i >= 0 /\ WsEnd(s, i) > i THEN WsEnd(s, i) ELSE -1
SkipDig1(s, i) == IF i >= 0 /\ DigEnd(s, i) > i THEN DigEnd(s, i) ELSE -1

\* $ under re.MULTILINE: at the end of the string or just before a newline.
EndOfLine(s, k) == k >= Len(s) \/ At(s, k) = NL

\* \s*$ from a: the greedy \s* gives back whitespace until $ holds.
SkipTail(s, a) ==
  IF a < 0 THEN -1
  ELSE LET ok == {k \in a..WsEnd(s, a) : EndOfLine(s, k)} IN
       IF ok = {} THEN -1 ELSE CHOOSE k \in ok : \A j \in ok : j <= k

\* offset_re matched at offset i exactly: [end, stop]; end = -1: no match.
\* ^ under re.MULTILINE: at offset 0 or just after a newline.
OffsetMatchAt(s, i) ==
  LET bol == i = 0 \/ At(s, i - 1) = NL
      o1 == SkipLit(s, SkipWs1(s, SkipLit(s, i, AtAt)), OffsetKey)
      o2 == SkipDig1(s, o1)
      l1 == SkipLit(s, SkipWs1(s, o2), LinesKey)
      l2 == SkipDig1(s, l1)
      r1 == SkipLit(s, SkipWs1(s, l2), CursorKey)
      r2 == SkipDig1(s, r1)
      c1 == SkipLit(s, r2, <<44>>)
      c2 == SkipDig1(s, c1)
      e  == SkipTail(s, c2)
  IN  IF bol /\ e # -1
      THEN [end |-> e,
            stop |-> [offset |-> DigitsValue(s, o1, o2),
                      lines  |-> DigitsValue(s, l1, l2),
                      row    |-> DigitsValue(s, r1, r2),
                      column |-> DigitsValue(s, c1, c2)]]
      ELSE [end |-> -1]

\* The least member of a non-empty set of offsets.
Least(S) == CHOOSE k \in S : \A j \in S : k <= j

\* offset_re.search(header, from): the leftmost match starting at or after from.
OffsetSearch(s, from) ==
  LET hits == {i \in from..Len(s) : OffsetMatchAt(s, i).end # -1} IN
  IF hits = {} THEN [end |-> -1] ELSE OffsetMatchAt(s, Least(hits))

\* The while loop of scan_header from offset `from`: the stops appended.
RECURSIVE ScanStops(_, _)
ScanStops(header, from) ==
  LET m == OffsetSearch(header, from) IN
  IF m.end = -1 THEN <<>> ELSE <<m.stop>> \o ScanStops(header, m.end)

\* scan_header(header): the value it leaves in self.stops.
scan_header(header) == ScanStops(header, 0)

\* r'@@ HEADER_END\r?\n' matched at offset i exactly: the end, or -1.
HeaderEndAt(raw, i) ==
  LET j == SkipLit(raw, i, HEADER_END) IN
  IF j # -1 /\ HasLit(raw, j, <<13, NL>>) THEN j + 2
  ELSE IF j # -1 /\ HasLit(raw, j, <<NL>>) THEN j + 1
  ELSE -1

\* re.search(r'@@ HEADER_END\r?\n', raw): m.end() of the leftmost match, or -1.
HeaderEndSearch(raw) ==
  LET hits == {i \in 0..Len(raw) : HeaderEndAt(raw, i) # -1} IN
  IF hits = {} THEN -1 ELSE HeaderEndAt(raw, Least(hits))

\* cmd_open on the bytes read from the file: the payload it leaves, and
\* whether it called scan_header, with the stops that call leaves.
ParseCapture(raw) ==
  IF HasLit(raw, 0, HEADER_START)
  THEN LET end == HeaderEndSearch(raw) IN
       IF end = -1
       THEN [data |-> raw, scanned |-> FALSE, stops |-> <<>>]
       ELSE [data |-> Slice(raw, end, Len(raw)), scanned |-> TRUE,
             stops |-> scan_header(Slice(raw, 0, end))]
  ELSE [data |-> raw, scanned |-> FALSE, stops |-> <<>>]

---------------------------------------------------------------------------
(* The captures the operator can open. *)

\* The decimal digits of n >= 0.
RECURSIVE Decimal(_)
Decimal(n) == IF n < 10 THEN <<48 + n>> ELSE Decimal(n \div 10) \o <<48 + (n % 10)>>

\* A header line "@@ OFFSET:o LINES:l CURSOR:r,c\n".
OffsetLine(o, l, r, c) ==
  AtAt \o <<32>> \o OffsetKey \o Decimal(o) \o <<32>> \o LinesKey \o Decimal(l)
       \o <<32>> \o CursorKey \o Decimal(r) \o <<44>> \o Decimal(c) \o <<NL>>

\* ESC [ 3 1 m H e l l o ESC [ 0 m
SgrHello == <<ESC, 91, 51, 49, 109, 72, 101, 108, 108, 111, ESC, 91, 48, 109>>

\* One stop at offset 5, then the five payload bytes "Hello".
OneStopFile ==
  HEADER_START \o <<NL>> \o OffsetLine(5, 1, 0, 5) \o HEADER_END \o <<NL>>
    \o <<72, 101, 108, 108, 111>>

\* Three stops (2, 6 and, past the end, 12), a header ended by \r\n, then
\* the payload a b ESC [ m c d.
ThreeStopFile ==
  HEADER_START \o <<NL>> \o OffsetLine(2, 3, 1, 0) \o OffsetLine(6, 24, 7, 10)
    \o OffsetLine(12, 1, 0, 0) \o HEADER_END \o <<13, NL>>
    \o <<97, 98, ESC, 91, 109, 99, 100>>

\* A header that never ends: the HEADER_START line, then a.
NoEndFile == HEADER_START \o <<NL, 97>>

\* Control strings, one of each category: ESC ] a BEL, ESC ^ a BEL,
\* ESC P a ESC \, ESC _ a BEL.
OscFile == <<ESC, 93, 97, BEL>>
PmFile == <<ESC, 94, 97, BEL>>
DcsFile == <<ESC, 80, 97, ESC, 92>>
ApcFile == <<ESC, 95, 97, BEL>>

\* A CSI sequence with an ESC among its parameters: ESC [ ESC a.
EscInCsiFile == <<ESC, 91, ESC, 97>>

\* The bytes the generated captures are made of: ESC and 'a'.
Alphabet == {ESC, 97}

\* Every byte string over Alphabet of length n.
RECURSIVE Strings(_)
Strings(n) ==
  IF n = 0 THEN {<<>>}
  ELSE {Append(s, b) : s \in Strings(n - 1), b \in Alphabet}

\* The files opened while terminals are attached: ESC c.
Samples == {<<ESC, 99>>}

\* The files `open` can be given (their contents).
Files ==
  UNION {Strings(n) : n \in 0..MaxLen}
    \cup {SgrHello, OneStopFile, ThreeStopFile, NoEndFile} \cup Samples
    \cup {OscFile, PmFile, DcsFile, ApcFile, EscInCsiFile}

\* cmd_open's parse of each file.
Parsed == [raw \in Files |-> ParseCapture(raw)]

---------------------------------------------------------------------------
(* The session. *)

\* The connections (socket objects) that can exist.
Ids == 1..MaxClients

\* A command line: the command's name and its argument, as an optional
\* '+' or '%' prefix and a number.
Cmd(name, flag, n) == [name |-> name, flag |-> flag, n |-> n]

NoBytes == [c \in Ids |-> <<>>]

Init ==
  /\ data = <<>>
  /\ stops = <<>>
  /\ start_position = 0
  /\ end_position = 0
  /\ clients = <<>>
  /\ delay_ms = 0
  /\ running = TRUE
  /\ last_command_line = Cmd("", FALSE, 0)
  /\ pc = "prompt"
  /\ count = 0
  /\ pos = 0
  /\ paced = 0
  /\ next_up = ""
  /\ received = NoBytes
  /\ joined = [c \in Ids |-> 0]
  /\ held = <<>>

\* The control thread is reading a command line (raw_input in run).
AtPrompt == running /\ pc = "prompt"

---------------------------------------------------------------------------
(* send and broadcast_chunk. *)

\* A send that deletes the client after the one whose write raised.
DelClientAfter(cl, i) == SubSeq(cl, 1, i) \o SubSeq(cl, i + 2, Len(cl))

\* del self.clients[i - 1], for the 1-based ordinal i.
DelClient(cl, i) == SubSeq(cl, 1, i - 1) \o SubSeq(cl, i + 1, Len(cl))

\* The for loop of send from ordinal i down to 1 over the list cl: the
\* list it leaves, having deleted each client whose write raised.  The
\* writes that raise IOError are those to the connections in bad.
RECURSIVE SendLoop(_, _, _)
SendLoop(cl, i, bad) ==
  IF i = 0 THEN cl
  ELSE IF cl[i] \in bad THEN SendLoop(DelClient(cl, i), i - 1, bad)
  ELSE SendLoop(cl, i - 1, bad)

\* What fd.send is given on each call of send(str): the current range of
\* the data, whatever str is.
Written(str) == Slice(data, start_position, end_position)

\* send(str), the writes to the connections in bad failing: the client
\* list and the bytes received after it.
send(str, bad) ==
  LET left == SendLoop(clients, Len(clients), bad) IN
  [clients  |-> left,
   received |-> [c \in Ids |->
                   IF c \in Range(left) THEN received[c] \o Written(str)
                   ELSE IF c \in Range(clients) THEN <<>>
                   ELSE received[c]]]

\* The bytes the current broadcast_chunk iterates over.
Chunk == Slice(data, start_position, end_position)

\* Whether the step of broadcast_chunk taken now calls send: the one bulk
\* call without a delay, one call per character with a delay.
Sends == delay_ms = 0 \/ Len(Chunk) > 0

\* The argument of that call.
SendArg == IF delay_ms = 0 THEN Chunk ELSE <<Chunk[paced + 1]>>

\* Whether broadcast_chunk returns after the step taken now.
ChunkDone == delay_ms = 0 \/ paced + 1 >= Len(Chunk)

\* One step of broadcast_chunk: at most one call of send, in which the
\* writes to the connections in bad fail.
BroadcastStep(bad) ==
  LET s == IF Sends THEN send(SendArg, bad)
           ELSE [clients |-> clients, received |-> received]
      gone == Range(clients) \ Range(s.clients)
  IN  /\ clients' = s.clients
      /\ received' = s.received
      /\ joined' = [c \in Ids |-> IF c \in gone THEN 0 ELSE joined[c]]
      /\ paced' = IF ChunkDone THEN 0 ELSE paced + 1

\* show_next_chunk: the cursor moves to the next chunk, which is printed.
ShowNextChunk(d, s, e) ==
  LET nxt == find_next_chunk(d, s, e) IN
  /\ start_position' = nxt.start
  /\ end_position' = nxt.end
  /\ next_up' = nxt.kind

\* cmd_reset over the payload d: the cursor goes to (0, 0) and on to the
\* first chunk.  What the clients received is counted from here.
ResetTo(d) ==
  /\ ShowNextChunk(d, 0, 0)
  /\ received' = NoBytes
  /\ joined' = [c \in Ids |-> 0]

---------------------------------------------------------------------------
(* The commands. *)

\* The stops cmd_open leaves: those of the header when it scanned one,
\* else the ones held before.
OpenStops(raw) == IF Parsed[raw].scanned THEN Parsed[raw].stops ELSE stops

\* open <path>, the file holding the bytes raw.
cmd_open(raw) ==
  /\ AtPrompt
  /\ last_command_line' = Cmd("", FALSE, 0)
  /\ data' = Parsed[raw].data
  /\ stops' = OpenStops(raw)
  /\ ResetTo(Parsed[raw].data)
  /\ UNCHANGED <<clients, delay_ms, running, pc, count, pos, paced, held>>

\* reset
cmd_reset ==
  /\ AtPrompt
  /\ last_command_line' = Cmd("", FALSE, 0)
  /\ ResetTo(data)
  /\ UNCHANGED <<data, stops, clients, delay_ms, running, pc, count, pos, paced, held>>

\* The body of cmd_step, entered with n iterations asked for and the end
\* position e: it returns at once at the end of the data or when n is 0,
\* and enters its while loop otherwise.
EnterStep(n, e) ==
  /\ end_position' = e
  /\ IF start_position >= Len(data) \/ n = 0
     THEN pc' = "prompt" /\ count' = 0
     ELSE pc' = "step" /\ count' = n
  /\ UNCHANGED <<data, stops, start_position, clients, delay_ms, running, pos,
                 paced, next_up, received, joined, held>>

\* step <n>
cmd_step(n) ==
  /\ AtPrompt
  /\ last_command_line' = Cmd("", FALSE, 0)
  /\ EnterStep(n, end_position)

\* The end position cmd_bstep forces before it steps.
BstepEnd(n) ==
  IF start_position + n = Len(data) THEN Len(data) ELSE start_position + n

\* bstep <n>
cmd_bstep(n) ==
  /\ AtPrompt
  /\ last_command_line' = Cmd("", FALSE, 0)
  /\ EnterStep(1, BstepEnd(n))

\* A step loop that a failed write ends: the IOError of a write leaves
\* send and cmd_step, with the clients and the cursor as they were.
StepLoopAborts(bad) ==
  /\ running /\ pc = "step"
  /\ IF bad = {}
     THEN /\ BroadcastStep(bad)
          /\ IF ChunkDone
             THEN /\ ShowNextChunk(data, start_position, end_position)
                  /\ IF end_position >= Len(data) \/ count - 1 = 0
                     THEN pc' = "prompt" /\ count' = 0
                     ELSE pc' = "step" /\ count' = count - 1
             ELSE UNCHANGED <<start_position, end_position, next_up, pc, count>>
     ELSE /\ pc' = "prompt" /\ count' = 0 /\ paced' = 0
          /\ UNCHANGED <<start_position, end_position, next_up, clients,
                         received, joined>>
  /\ UNCHANGED <<data, stops, delay_ms, running, last_command_line, pos, held>>

\* One iteration of the while loop of cmd_step; an iteration over a chunk
\* sent with a delay takes one step per character.
StepLoop(bad) ==
  /\ running /\ pc = "step"
  /\ BroadcastStep(bad)
  /\ IF ChunkDone
     THEN /\ ShowNextChunk(data, start_position, end_position)
          /\ IF end_position >= Len(data) \/ count - 1 = 0
             THEN pc' = "prompt" /\ count' = 0
             ELSE pc' = "step" /\ count' = count - 1
     ELSE UNCHANGED <<start_position, end_position, next_up, pc, count>>
  /\ UNCHANGED <<data, stops, delay_ms, running, last_command_line, pos, held>>

\* Whether cmd_seek resets before it plays to the target.
SeekResets(target) == target <= start_position

\* Whether the while loop of cmd_seek goes on, for the end position e.
SeekGoesOn(e, target) == e <= target

\* A seek that lets a target one past the end of the data through.
SeekPastEndLax(target) == target > Len(data) + 1

\* if pos > len(self.data): 'Seek past end.'
SeekPastEnd(target) == target > Len(data)

\* if index < 1 or index > len(self.stops): 'No such stop.'
NoSuchStop(flag, n) == flag /\ (n < 1 \/ n > Len(stops))

\* seek <n> and seek %<n>
cmd_seek(flag, n) ==
  /\ AtPrompt
  /\ last_command_line' = Cmd("seek", flag, n)
  /\ LET noStop == NoSuchStop(flag, n)
         target == IF flag THEN stops[n].offset ELSE n
     IN  IF data = <<>> \/ noStop \/ SeekPastEnd(target)
         THEN UNCHANGED <<start_position, end_position, next_up, received, joined,
                          pc, pos>>
         ELSE /\ IF SeekResets(target)
                 THEN ResetTo(data)
                 ELSE UNCHANGED <<start_position, end_position, next_up, received,
                                  joined>>
              /\ IF SeekGoesOn(end_position', target)
                 THEN pc' = "seek" /\ pos' = target
                 ELSE pc' = "prompt" /\ pos' = 0
  /\ UNCHANGED <<data, stops, clients, delay_ms, running, count, paced, held>>

\* One iteration of the while loop of cmd_seek.
SeekLoop(bad) ==
  /\ running /\ pc = "seek"
  /\ BroadcastStep(bad)
  /\ IF ChunkDone
     THEN /\ ShowNextChunk(data, start_position, end_position)
          /\ IF SeekGoesOn(end_position', pos)
             THEN pc' = "seek" /\ pos' = pos
             ELSE pc' = "prompt" /\ pos' = 0
     ELSE UNCHANGED <<start_position, end_position, next_up, pc, pos>>
  /\ UNCHANGED <<data, stops, delay_ms, running, last_command_line, count, held>>

\* The arguments given to delay: none, and 20 ms.  Only whether the delay
\* is 0 matters to broadcast_chunk.
Delays == {0, 20}

\* delay <n>
cmd_delay(n) ==
  /\ AtPrompt
  /\ last_command_line' = Cmd("", FALSE, 0)
  /\ delay_ms' = n
  /\ UNCHANGED <<data, stops, start_position, end_position, clients, running, pc,
                 count, pos, paced, next_up, received, joined, held>>

\* The client list cmd_accept starts from.
AcceptKeeps(flag) == IF flag THEN clients ELSE <<>>

\* The number of clients cmd_accept waits for.
AcceptCount(flag, n) == IF flag THEN Len(clients) + n ELSE n

\* Whether the while loop of cmd_accept goes on, for the client list cl.
AcceptGoesOn(cl, target) == Len(cl) < target

\* accept <n> and accept +<n>
cmd_accept(flag, n) ==
  /\ AtPrompt
  /\ AcceptCount(flag, n) <= MaxClients
  /\ last_command_line' = Cmd("", FALSE, 0)
  /\ IF AcceptGoesOn(AcceptKeeps(flag), AcceptCount(flag, n))
     THEN pc' = "accept" /\ count' = AcceptCount(flag, n) /\ held' = AcceptKeeps(flag)
     ELSE pc' = "prompt" /\ count' = 0 /\ held' = <<>>
  /\ clients' = AcceptKeeps(flag)
  /\ received' = [c \in Ids |-> IF c \in Range(clients') THEN received[c] ELSE <<>>]
  /\ joined' = [c \in Ids |-> IF c \in Range(clients') THEN joined[c] ELSE 0]
  /\ UNCHANGED <<data, stops, start_position, end_position, delay_ms, running, pos,
                 paced, next_up>>

\* An accept that puts the new connection at the head of the list.
AcceptedFirst(cl, fd) == <<fd>> \o cl

\* The client list after sock.accept() returned the connection fd.
Accepted(cl, fd) == Append(cl, fd)

\* One iteration of the while loop of cmd_accept: a terminal connects.  The
\* new socket is the free one of the lowest number.
Connect ==
  /\ running /\ pc = "accept"
  /\ LET free == Ids \ Range(clients)
         fd == CHOOSE c \in free : \A o \in free : c <= o
     IN  /\ free # {}
         /\ clients' = Accepted(clients, fd)
         /\ joined' = [joined EXCEPT ![fd] = start_position]
  /\ IF AcceptGoesOn(clients', count)
     THEN pc' = "accept" /\ count' = count /\ held' = held
     ELSE pc' = "prompt" /\ count' = 0 /\ held' = <<>>
  /\ UNCHANGED <<data, stops, start_position, end_position, delay_ms, running,
                 last_command_line, pos, paced, next_up, received>>

\* exit
cmd_exit ==
  /\ AtPrompt
  /\ last_command_line' = Cmd("", FALSE, 0)
  /\ running' = FALSE
  /\ UNCHANGED <<data, stops, start_position, end_position, clients, delay_ms, pc,
                 count, pos, paced, next_up, received, joined, held>>

\* The commands whose argument can be missing or malformed.
BadCommands == {"open", "step", "bstep", "seek", "accept", "delay"}

\* Whether the command raises: open with no path evaluates args[0], the
\* others evaluate int() of an argument that is not an integer.  cmd_step
\* returns before int() at the end of the data, cmd_seek when there is no
\* data.
Raises(name) ==
  CASE name = "open"   -> TRUE
    [] name = "step"   -> start_position < Len(data)
    [] name = "bstep"  -> TRUE
    [] name = "seek"   -> data # <<>>
    [] name = "accept" -> TRUE
    [] name = "delay"  -> TRUE

\* The command name with no path (open) or with an argument that is not an
\* integer (the others).  dispatch_command calls the command outside any
\* try block, so the exception leaves dispatch_command and run.
BadArgument(name) ==
  /\ AtPrompt
  /\ IF Raises(name)
     THEN pc' = "crashed" /\ UNCHANGED last_command_line
     ELSE pc' = "prompt" /\ last_command_line' = Cmd("", FALSE, 0)
  /\ UNCHANGED <<data, stops, start_position, end_position, clients, delay_ms,
                 running, count, pos, paced, next_up, received, joined, held>>

\* The whole program, on the sample captures.
Next ==
  \/ \E raw \in Samples : cmd_open(raw)
  \/ cmd_reset
  \/ \E n \in 0..MaxCount : cmd_step(n)
  \/ \E n \in 0..MaxCount : cmd_bstep(n)
  \/ \E n \in 0..(Len(data) + 1) : cmd_seek(FALSE, n)
  \/ \E n \in 0..(Len(stops) + 1) : cmd_seek(TRUE, n)
  \/ \E n \in Delays : cmd_delay(n)
  \/ \E flag \in BOOLEAN, n \in 0..MaxClients : cmd_accept(flag, n)
  \/ cmd_exit
  \/ \E name \in BadCommands : BadArgument(name)
  \/ \E bad \in SUBSET Range(clients) : StepLoop(bad)
  \/ \E bad \in SUBSET Range(clients) : SeekLoop(bad)
  \/ Connect

Spec == Init /\ [][Next]_vars

\* The operator replaying any of the captures with no terminal attached.
ReplayNext ==
  \/ \E raw \in Files : cmd_open(raw)
  \/ cmd_reset
  \/ \E n \in 0..MaxCount : cmd_step(n)
  \/ \E n \in 0..MaxCount : cmd_bstep(n)
  \/ \E n \in 0..(Len(data) + 1) : cmd_seek(FALSE, n)
  \/ \E n \in 0..(Len(stops) + 1) : cmd_seek(TRUE, n)
  \/ \E n \in Delays : cmd_delay(n)
  \/ cmd_exit
  \/ \E name \in BadCommands : BadArgument(name)
  \/ StepLoop({})
  \/ SeekLoop({})

ReplaySpec == Init /\ [][ReplayNext]_vars

---------------------------------------------------------------------------
(* Properties. *)

\* The chunks that repeated calls of find_next_chunk cut the payload d
\* into, from the cursor (s, e) to the end of the data.
RECURSIVE ChunksFrom(_, _, _)
ChunksFrom(d, s, e) ==
  LET nxt == find_next_chunk(d, s, e) IN
  IF nxt.kind = "end" THEN <<>>
  ELSE <<nxt>> \o ChunksFrom(d, nxt.start, nxt.end)

RECURSIVE TotalLength(_)
TotalLength(chunks) ==
  IF chunks = <<>> THEN 0
  ELSE (Head(chunks).end - Head(chunks).start) + TotalLength(Tail(chunks))

\* C1: between commands, 0 <= start_position <= end_position <= len(data).
C1_CursorWithinPayload ==
  pc = "prompt" =>
    /\ 0 <= start_position
    /\ start_position <= end_position
    /\ end_position <= Len(data)

\* C2: the chunks found by advancing from (0, 0) over the loaded payload
\* start at 0, each starts where the one before ended, and together they
\* are len(data) bytes long; ESC [ 3 1 m H e l l o ESC [ 0 m is cut into
\* a CSI chunk, a text chunk of 5 bytes and a CSI chunk.
C2_ChunksTilePayload ==
  LET chunks == ChunksFrom(data, 0, 0) IN
  /\ chunks # <<>> => chunks[1].start = 0
  /\ \A i \in 1..(Len(chunks) - 1) : chunks[i + 1].start = chunks[i].end
  /\ TotalLength(chunks) = Len(data)
  /\ data = SgrHello =>
       chunks = << [start |-> 0, end |-> 5, kind |-> "CSI"],
                   [start |-> 5, end |-> 10, kind |-> "text"],
                   [start |-> 10, end |-> 14, kind |-> "CSI"] >>

\* C3: between commands, a client attached since the last reset has been
\* sent exactly data[0 : start_position].
C3_ClientHasConsumedPrefix ==
  pc = "prompt" =>
    \A c \in Range(clients) :
      joined[c] = 0 => received[c] = Slice(data, 0, start_position)

\* C4: whatever the delay, at the end of each broadcast a client has been
\* sent what one bulk write per broadcast sends it: the bytes from the
\* position it was first sent from up to start_position.
C4_DelayKeepsContent ==
  paced = 0 =>
    \A c \in Range(clients) :
      received[c] = Slice(data, joined[c], start_position)

\* The clients of cl that are not in bad, in the order of cl.
RECURSIVE Without(_, _)
Without(cl, bad) ==
  IF cl = <<>> THEN <<>>
  ELSE IF Head(cl) \in bad THEN Without(Tail(cl), bad)
  ELSE <<Head(cl)>> \o Without(Tail(cl), bad)

C6_SeekTwiceBroadcastsNothing ==
  [][\A t \in 0..Len(data) :
       (last_command_line = Cmd("seek", FALSE, t) /\ cmd_seek(FALSE, t)) =>
         /\ pc' = "prompt"
         /\ start_position' = start_position
         /\ end_position' = end_position]_vars

\* C7: bstep n, n >= 1, with the cursor on a byte of plain text forces
\* end_position to min(start_position + n, len(data)).
C7_BstepClipsAtEnd ==
  [][\A n \in 1..MaxCount :
       (/\ start_position < Len(data)
        /\ At(data, start_position) # ESC
        /\ cmd_bstep(n)) =>
         end_position' = Min(start_position + n, Len(data))]_vars

\* C8: open of a capture with no header, or with a header that does not
\* end, leaves the whole input as the payload and no stop.
C8_HeaderlessOpenClearsStops ==
  [][\A raw \in Files :
       (cmd_open(raw) /\ (~HasLit(raw, 0, HEADER_START) \/ HeaderEndSearch(raw) = -1)) =>
         /\ data' = raw
         /\ stops' = <<>>]_vars

\* The while loop of a seek to a stop cannot end: the cursor is at the end
\* of the data and the end position is not past the target.
SeekStuck ==
  /\ pc = "seek"
  /\ last_command_line.flag
  /\ end_position >= Len(data)
  /\ end_position <= pos

\* C9: open of the capture with the stop line OFFSET:5 LINES:1 CURSOR:0,5
\* and the payload Hello leaves that one stop and that payload; seek %i
\* plays to the offset of stop i; and the seek completes.
C9_SeekToStopCompletes ==
  [][/\ cmd_open(OneStopFile) =>
          /\ stops' = <<[offset |-> 5, lines |-> 1, row |-> 0, column |-> 5]>>
          /\ data' = <<72, 101, 108, 108, 111>>
     /\ \A i \in 1..Len(stops) :
          (cmd_seek(TRUE, i) /\ pc' = "seek") => pos' = stops[i].offset
     /\ ~SeekStuck']_vars

\* Whether the list p is the beginning of the list cl.
IsPrefix(p, cl) == Len(p) <= Len(cl) /\ SubSeq(cl, 1, Len(p)) = p

\* C10: accept n drops the clients and accept +n keeps them; the command
\* returns at once only when n is 0, and waits otherwise for n more than
\* the clients it kept; while it waits every connection is added after
\* the clients already there; and it returns with exactly the awaited
\* number of clients.
C10_AcceptWaitsForCount ==
  [][/\ \A flag \in BOOLEAN, n \in 0..MaxClients :
          cmd_accept(flag, n) =>
            /\ clients' = IF flag THEN clients ELSE <<>>
            /\ pc' = IF n = 0 THEN "prompt" ELSE "accept"
            /\ n > 0 => held' = clients' /\ count' = Len(clients') + n
     /\ pc = "accept" =>
          /\ IsPrefix(held, clients) /\ Len(clients) < count
          /\ \E fd \in Ids \ Range(clients) : clients' = clients \o <<fd>>
          /\ pc' = IF Len(clients') = count THEN "prompt" ELSE "accept"
          /\ pc' = "accept" => held' = held /\ count' = count]_vars

\* C10: a third client has connected, through accept +1, after clients 1
\* and 2, which were attached at the last reset.
C10_Witness ==
  /\ pc = "prompt"
  /\ clients = <<1, 2, 3>>
  /\ joined[1] = 0 /\ joined[2] = 0
  /\ joined[3] > 0

\* C11: a command whose argument is missing (open) or is not an integer
\* (step, bstep, seek, accept, delay) changes nothing of the session, and
\* the command loop is back at the prompt, running.
C11_BadArgumentIsReported ==
  [][\A name \in BadCommands :
       BadArgument(name) =>
         /\ pc' = "prompt" /\ running'
         /\ UNCHANGED <<data, stops, start_position, end_position, clients,
                        delay_ms, received>>]_vars

\* C12: a seek past the end of the data, and a seek to a stop that does
\* not exist, return at once and leave the cursor, the client list and the
\* bytes sent to every client as they were.
C12_RejectedSeekChangesNothing ==
  [][\A flag \in BOOLEAN, n \in 0..(Len(data) + Len(stops) + 1) :
       (/\ IF flag THEN n < 1 \/ n > Len(stops) ELSE n > Len(data)
        /\ cmd_seek(flag, n)) =>
         /\ pc' = "prompt"
         /\ UNCHANGED <<start_position, end_position, clients, received>>]_vars

\* C12: a seek to one past the end has been rejected with the cursor moved
\* off the start and a client that has been sent bytes.
C12_Witness ==
  /\ pc = "prompt"
  /\ data # <<>>
  /\ last_command_line = Cmd("seek", FALSE, Len(data) + 1)
  /\ start_position > 0
  /\ clients # <<>>
  /\ received[clients[1]] # <<>>

\* The offset just after the first string terminator (ESC \) or bell at
\* or after offset q of d; -1 when there is none.
TerminatorEnd(d, q) ==
  LET ends == {k + 1 : k \in {j \in q..(Len(d) - 1) : At(d, j) = BEL}}
              \cup {k + 2 : k \in {j \in q..(Len(d) - 2) :
                                     At(d, j) = ESC /\ At(d, j + 1) = 92}}
  IN  IF ends = {} THEN -1 ELSE Least(ends)

\* The offset just after the first byte in '@'..'~' at or after offset q of
\* d; -1 when there is none.
FinalByteEnd(d, q) ==
  LET ends == {k + 1 : k \in {j \in q..(Len(d) - 1) : At(d, j) \in 64..126}}
  IN  IF ends = {} THEN -1 ELSE Least(ends)

\* The introducer byte of each control string category: ] ^ P _
StringIntroducer == [OSC |-> 93, PM |-> 94, DCS |-> 80, APC |-> 95]

\* C13: in the loaded payload, an escape introduced as OSC, PM, DCS or APC
\* and followed by a terminator is tagged with its category and ends just
\* after the first ESC \ or bell; an escape introduced as CSI and followed
\* by a final byte is tagged CSI and ends just after the first final byte.
C13_CategoryEndsAtItsTerminator ==
  \A p \in 0..(Len(data) - 2) :
    At(data, p) = ESC =>
      LET chunk == find_next_chunk(data, p, p) IN
      /\ \A name \in DOMAIN StringIntroducer :
           (At(data, p + 1) = StringIntroducer[name]
              /\ TerminatorEnd(data, p + 2) # -1) =>
             chunk.kind = name /\ chunk.end = TerminatorEnd(data, p + 2)
      /\ (At(data, p + 1) = 91 /\ FinalByteEnd(data, p + 2) # -1) =>
           chunk.kind = "CSI" /\ chunk.end = FinalByteEnd(data, p + 2)

\* C14: at every escape of the loaded payload where some pattern of
\* re_escapes matches, the chunk has the name and the end of the first
\* pattern of the table that matches, whatever the cursor was before.
C14_FirstPatternWins ==
  \A p \in 0..(Len(data) - 1) :
    At(data, p) = ESC =>
      LET hits == {i \in 1..Len(re_escapes) :
                     PatternMatch(re_escapes[i], data, p + 1) # -1}
      IN  hits # {} =>
            \A s \in {0, start_position} :
              /\ find_next_chunk(data, s, p).kind = re_escapes[Least(hits)]
              /\ find_next_chunk(data, s, p).end =
                   PatternMatch(re_escapes[Least(hits)], data, p + 1)

\* C14: the first chunk of ESC [ 3 1 m H e l l o ESC [ 0 m is shown as CSI,
\* where the pattern ESC, later in the table, matches too.
C14_Witness ==
  /\ pc = "prompt"
  /\ data = SgrHello
  /\ start_position = 0 /\ end_position = 5
  /\ next_up = "CSI"
  /\ MatchESC(data, 1) # -1

\* C15: at every escape of the loaded payload where no pattern of
\* re_escapes matches, the chunk is tagged unknown, ends MAX_TEXT past the
\* offset that follows the introducer, and keeps the cursor within the
\* payload.
C15_UnknownEscapeWindow ==
  \A p \in 0..(Len(data) - 1) :
    (At(data, p) = ESC
       /\ \A i \in 1..Len(re_escapes) : PatternMatch(re_escapes[i], data, p + 1) = -1) =>
      LET chunk == find_next_chunk(data, p, p) IN
      /\ chunk.kind = "???"
      /\ chunk.end = (p + 1) + MAX_TEXT
      /\ chunk.start <= chunk.end /\ chunk.end <= Len(data)

\* C16: end_position after a step, bstep or seek command that does not
\* reset is at least what it was before: no iteration of the loops of
\* cmd_step and cmd_seek lowers it, cmd_step and a seek that does not reset
\* do not lower it on entry, and the one iteration that cmd_bstep runs from
\* the end position it forces leaves it at or past its value before the
\* command.
C16_EndPositionNeverDecreases ==
  [][/\ (StepLoop({}) \/ SeekLoop({})) => end_position' >= end_position
     /\ \A n \in 0..MaxCount : cmd_step(n) => end_position' >= end_position
     /\ \A n \in 0..Len(data) :
          (cmd_seek(FALSE, n) /\ ~SeekResets(n)) => end_position' >= end_position
     /\ \A i \in 1..Len(stops) :
          (cmd_seek(TRUE, i) /\ ~SeekResets(stops[i].offset)) =>
            end_position' >= end_position
     /\ \A n \in 0..MaxCount :
          cmd_bstep(n) =>
            (IF pc' = "step"
             THEN find_next_chunk(data, start_position, end_position').end
             ELSE end_position') >= end_position]_vars

\* C17: find_next_chunk called on the loaded payload with an end position
\* e before the end of the data returns a chunk that ends after e: at the
\* next ESC or at the end of the data when the byte at e is plain text, and
\* after the byte that follows the ESC when it is an ESC; called with e at
\* or past the end of the data it returns no chunk and leaves e.
C17_AdvanceMakesProgress ==
  \A e \in 0..(Len(data) + 1) :
    LET chunk == find_next_chunk(data, start_position, e) IN
    IF e < Len(data)
    THEN /\ chunk.kind # "end"
         /\ chunk.start = e
         /\ chunk.end > e
         /\ IF At(data, e) = ESC
            THEN chunk.end > e + 1
            ELSE /\ \A k \in e..(chunk.end - 1) : At(data, k) # ESC
                 /\ chunk.end = Len(data) \/ At(data, chunk.end) = ESC
    ELSE chunk.kind = "end" /\ chunk.end = e

\* C17: the cursor has advanced twice over ESC [ 3 1 m H e l l o ESC [ 0 m,
\* onto the text chunk and onto the CSI chunk that follows it.
C17_Witness ==
  /\ pc = "prompt"
  /\ data = SgrHello
  /\ start_position = 10 /\ end_position = 14
  /\ next_up = "CSI"

\* An iteration of the while loop of cmd_seek changes nothing: the range
\* to broadcast is empty, find_next_chunk leaves the cursor, and the loop
\* condition still holds.
SeekSpins ==
  /\ pc = "seek"
  /\ start_position = end_position
  /\ find_next_chunk(data, start_position, end_position).end = end_position
  /\ SeekGoesOn(end_position, pos)

\* The cursor on return from a seek to target.
SeekReturned(target) ==
  start_position' <= target /\ ~SeekGoesOn(end_position', target)

\* C18: a seek to a target within 0..len(data) never reaches an iteration
\* that repeats for ever, and it returns, from its loop or without
\* entering it, with start_position <= target < end_position.
C18_SeekTerminates ==
  [][/\ ~SeekSpins'
     /\ (pc = "seek" /\ pc' = "prompt") => SeekReturned(pos)
     /\ \A n \in 0..Len(data) :
          (data # <<>> /\ cmd_seek(FALSE, n) /\ pc' = "prompt") => SeekReturned(n)]_vars

\* C19, the iterations: step n, n >= 1, at the end of the data returns at
\* once and changes nothing; otherwise it enters its loop with n iterations
\* to go; the loop never runs with the cursor at the end of the data; and
\* an iteration that completes advances from the end of the range it
\* broadcast, then returns if the cursor is at the end or no iteration is
\* left, and goes on with one iteration less otherwise.
StepIterations ==
  /\ \A n \in 1..MaxCount :
       cmd_step(n) =>
         /\ UNCHANGED <<start_position, end_position, clients, received>>
         /\ IF start_position >= Len(data)
            THEN pc' = "prompt"
            ELSE pc' = "step" /\ count' = n
  /\ pc = "step" => start_position < Len(data)
  /\ \A bad \in SUBSET Range(clients) :
       (StepLoop(bad) /\ paced' = 0) =>
         /\ start_position' = end_position
         /\ pc' = IF start_position' >= Len(data) \/ count = 1
                  THEN "prompt" ELSE "step"
         /\ pc' = "step" => count' = count - 1

\* C19: step n runs the iterations above, and an iteration that completes
\* has sent each client exactly the range [start_position, end_position):
\* the client then holds the bytes from where it joined to end_position.
C19_StepBroadcastsThenAdvances ==
  [][/\ StepIterations
     /\ \A bad \in SUBSET Range(clients) :
          (StepLoop(bad) /\ paced' = 0) =>
            \A c \in Range(clients') :
              received'[c] = Slice(data, joined[c], end_position)]_vars

\* C19, the iterations alone.
StepIterationsHold == [][StepIterations]_vars

\* What one step of a step or seek loop does to the cursor and sends to a
\* client, computed from the payload, the cursor and the delay alone: the
\* chunk is complete (done) or one more of its characters is paced.
ReplayProgress ==
  LET range == Slice(data, start_position, end_position)
      done  == delay_ms = 0 \/ paced + 1 >= Len(range)
      nxt   == find_next_chunk(data, start_position, end_position)
  IN  /\ start_position' = IF done THEN end_position ELSE start_position
      /\ end_position' = IF done THEN nxt.end ELSE end_position
      /\ paced' = IF done THEN 0 ELSE paced + 1
      /\ pc' = IF ~done THEN pc
               ELSE IF pc = "step"
                    THEN (IF end_position >= Len(data) \/ count = 1
                          THEN "prompt" ELSE "step")
                    ELSE (IF nxt.end <= pos THEN "seek" ELSE "prompt")
      /\ \A c \in Range(clients') :
           received'[c] =
             received[c] \o (IF delay_ms = 0 \/ Len(range) > 0 THEN range ELSE <<>>)

\* C20: every step of the loops of cmd_step and cmd_seek moves the cursor
\* and sends each remaining client the same bytes whatever the clients
\* attached and whichever writes fail, and the clients left are those
\* whose write did not fail, in their order (all of them when the step
\* writes nothing).
C20_FailuresDoNotChangeReplay ==
  [][\A bad \in SUBSET Range(clients) :
       (StepLoop(bad) \/ SeekLoop(bad)) =>
         /\ ReplayProgress
         /\ clients' = IF Sends THEN Without(clients, bad) ELSE clients]_vars

\* C20: client 1 of two has failed and client 2, attached since the reset,
\* has been sent the payload to its end.
C20_Witness ==
  /\ pc = "prompt"
  /\ clients = <<2>>
  /\ joined[2] = 0
  /\ data # <<>>
  /\ start_position = Len(data)
  /\ received[2] # <<>>

===========================================================================
